---------------------------- MODULE Spec2Model ----------------------------
(***************************************************************************)
(* A model of pygosym: the legacy symbol-record reader (walksymtab), the   *)
(* table builder (new_table), the modern pclntab header (LineTable.go12,   *)
(* Go12State) and the classic line-table decoder (LineTable.parse).        *)
(*                                                                         *)
(* Byte buffers are sequences of 0..255.  Python offsets are 0-based; the  *)
(* helpers At/Slice/Drop keep Python's conventions (a slice clamps, an     *)
(* index past the end raises IndexError).  Text is a sequence of code      *)
(* points.  An unbound Python local is the value Unbound; None is the      *)
(* record None.                                                            *)
(***************************************************************************)
EXTENDS Integers, Sequences, FiniteSets, TLC

(***************************************************************************)
(* Bounds of the model.                                                    *)
(***************************************************************************)
\* longest legacy record stream that Init enumerates freely
MaxRecs == 2
\* most function-table entries of a generated modern table
MaxModernFuncs == 2
\* most opcodes of a generated classic opcode stream
MaxOps == 3
\* Funcs / Objs after which a non-terminating assembly loop is cut off
MaxLoopObjects == 3

(***************************************************************************)
(* Python values.                                                          *)
(***************************************************************************)
Unbound == 0 - 1
None == [none |-> TRUE]
\* None, or an exception, where the value is otherwise a sequence
NoneSeq == <<Unbound>>

Min(a, b) == IF a < b THEN a ELSE b

\* b[i] of a memoryview / bytes, 0-based; the caller guards i < len(b)
At(b, i) == b[i + 1]
\* b[lo:hi] with Python's clamping (lo, hi >= 0)
Slice(b, lo, hi) == SubSeq(b, Min(lo, Len(b)) + 1, Min(hi, Len(b)))
\* b[n:]
Drop(b, n) == SubSeq(b, Min(n, Len(b)) + 1, Len(b))

RECURSIVE Pow2(_)
Pow2(n) == IF n = 0 THEN 1 ELSE 2 * Pow2(n - 1)

RECURSIVE BitAnd(_, _)
BitAnd(a, b) ==
    IF a = 0 \/ b = 0 THEN 0
    ELSE (a % 2) * (b % 2) + 2 * BitAnd(a \div 2, b \div 2)

RECURSIVE BitOr(_, _)
BitOr(a, b) ==
    IF a = 0 THEN b
    ELSE IF b = 0 THEN a
    ELSE (IF a % 2 = 1 \/ b % 2 = 1 THEN 1 ELSE 0) + 2 * BitOr(a \div 2, b \div 2)

\* TLC's integers are 32 bits wide and Python's are unbounded: a decoded
\* integer of Huge = 2^22 or more is kept as Huge.  The code uses the integers
\* it decodes as slice bounds and offsets into buffers far shorter than that,
\* where every such value acts alike, and stores them.
Huge == 4096 * 1024

RECURSIVE FromBig(_)
FromBig(b) ==
    IF b = <<>> THEN 0
    ELSE Min(Huge, 256 * FromBig(SubSeq(b, 1, Len(b) - 1)) + b[Len(b)])

RECURSIVE FromLittle(_)
FromLittle(b) == IF b = <<>> THEN 0 ELSE Min(Huge, b[1] + 256 * FromLittle(Tail(b)))

\* ByteOrder.from_bytes: int.from_bytes(b, order)
from_bytes(order, b) == IF order = "big" THEN FromBig(b) ELSE FromLittle(b)

\* ByteOrder.u32
u32(order, b) == from_bytes(order, Slice(b, 0, 4))

RECURSIVE ToLittle(_, _)
ToLittle(v, n) == IF n = 0 THEN <<>> ELSE <<v % 256>> \o ToLittle(v \div 256, n - 1)

RECURSIVE ToBig(_, _)
ToBig(v, n) == IF n = 0 THEN <<>> ELSE ToBig(v \div 256, n - 1) \o <<v % 256>>

\* ByteOrder.to_bytes
to_bytes(order, v, n) == IF order = "big" THEN ToBig(v, n) ELSE ToLittle(v, n)

\* index of the first 0 byte of b at or after 0-based offset k, Len(b) if none
RECURSIVE FirstNul(_, _)
FirstNul(b, k) ==
    IF k >= Len(b) THEN Len(b)
    ELSE IF At(b, k) = 0 THEN k
    ELSE FirstNul(b, k + 1)

\* bytes.decode("utf-8") on the bytes this model feeds it: ASCII decodes to
\* itself, C2 B7 decodes to U+00B7, and a byte that starts no sequence raises
\* UnicodeDecodeError (the result NoneSeq).
RECURSIVE Utf8Decode(_)
Utf8Decode(b) ==
    IF b = <<>> THEN <<>>
    ELSE IF b[1] < 128 THEN
        LET rest == Utf8Decode(Tail(b)) IN
        IF rest = NoneSeq THEN NoneSeq ELSE <<b[1]>> \o rest
    ELSE IF b[1] = 194 /\ Len(b) >= 2 /\ b[2] = 183 THEN
        LET rest == Utf8Decode(SubSeq(b, 3, Len(b))) IN
        IF rest = NoneSeq THEN NoneSeq ELSE <<183>> \o rest
    ELSE NoneSeq

RECURSIVE Concat(_)
Concat(ss) == IF ss = <<>> THEN <<>> ELSE Head(ss) \o Concat(Tail(ss))

RECURSIVE Reverse(_)
Reverse(s) == IF s = <<>> THEN <<>> ELSE Reverse(Tail(s)) \o <<Head(s)>>

\* a dict: a function whose DOMAIN is the set of keys
EmptyMap == [k \in {} |-> 0]
MapPut(m, k, v) == [x \in (DOMAIN m) \cup {k} |-> IF x = k THEN v ELSE m[x]]

(***************************************************************************)
(* pclntab.py: the modern (Go 1.2) header and function table.              *)
(***************************************************************************)
\* GO12_MAGIC = 0xfffffffb, kept as its four big-endian bytes: for a buffer of
\* at least four bytes int.from_bytes(data[:4], order) == GO12_MAGIC says that
\* data[:4], read in that order, is these bytes.
GO12_MAGIC == <<255, 255, 255, 251>>

\* the dataclass Go12State with its defaults: go12_init passes no binary, so
\* the field keeps ByteOrder.LITTLE_ENDIAN; file_map defaults to {} (not None)
Go12State(functab, filetab, quantum, ptrsize, nfunctab, nfiletab) ==
    [functab |-> functab, filetab |-> filetab, binary |-> "little",
     quantum |-> quantum, ptrsize |-> ptrsize,
     nfunctab |-> nfunctab, nfiletab |-> nfiletab, file_map |-> EmptyMap]

\* a length test that only covers the magic: what C2 must tell apart
HeaderTooShort_MagicOnly(data) == Len(data) < 4

\* len(self.data) < 16, the first test of the header check
HeaderTooShort(data) == Len(data) < 16

\* the byte order whose reading of data[:4] is GO12_MAGIC, None if neither
MagicOrder(data) ==
    IF Slice(data, 0, 4) = GO12_MAGIC THEN "big"
    ELSE IF Slice(data, 0, 4) = Reverse(GO12_MAGIC) THEN "little"
    ELSE "neither"

\* the header parse after the checks (lines 182-200)
Go12Parse(data, binary) ==
    LET quantum == At(data, 6)
        ptrsize == At(data, 7)
        nfunctab == from_bytes(binary, Slice(data, 8, 8 + ptrsize))
        functab0 == Drop(data, 8 + ptrsize)
        functabsize == (nfunctab * 2 + 1) * ptrsize
        fileoff == from_bytes(binary, Slice(functab0, functabsize, functabsize + 4))
        functab == Slice(functab0, 0, functabsize)
        filetab0 == Drop(data, fileoff)
        nfiletab == from_bytes(binary, Slice(filetab0, 0, 4))
        filetab == Slice(filetab0, 0, nfiletab * 4)
    IN  Go12State(functab, filetab, quantum, ptrsize, nfunctab, nfiletab)

\* LineTable.go12_init: [exc, go12]; exc is the exception that escapes
\* (the except clause re-raises), go12 the value left in _go12
go12_init(data) ==
    LET absent == [exc |-> "none", go12 |-> None]
        raised == [exc |-> "IndexError", go12 |-> None]
    IN  IF HeaderTooShort(data) THEN absent
        ELSE IF Len(data) <= 4 THEN raised
        ELSE IF At(data, 4) # 0 THEN absent
        ELSE IF Len(data) <= 5 THEN raised
        ELSE IF At(data, 5) # 0 THEN absent
        ELSE IF Len(data) <= 6 THEN raised
        ELSE IF At(data, 6) \notin {1, 2, 4} THEN absent
        ELSE IF Len(data) <= 7 THEN raised
        ELSE IF At(data, 7) \notin {4, 8} THEN absent
        ELSE IF MagicOrder(data) = "neither" THEN absent
        ELSE [exc |-> "none", go12 |-> Go12Parse(data, MagicOrder(data))]

\* new_line_table(data, text)
new_line_table(data, text) ==
    [data |-> data, PC |-> text, line |-> 0, checked_go12 |-> FALSE, go12 |-> None]

\* the property LineTable.go12: [lt, exc, value]
go12_checked(lt, r) ==
    [lt |-> [lt EXCEPT !.checked_go12 = TRUE, !.go12 = r.go12],
     exc |-> r.exc, value |-> r.go12]

go12_property(lt) ==
    IF lt.checked_go12 THEN [lt |-> lt, exc |-> "none", value |-> lt.go12]
    ELSE go12_checked(lt, go12_init(lt.data))

\* Go12State.uintptr
uintptr(go12, b) == from_bytes(go12.binary, Slice(b, 0, go12.ptrsize))

\* Go12State.string: the NUL-terminated run at data[off:], decoded; NoneSeq when
\* the decode raises UnicodeDecodeError.  (The cache self.strings only saves
\* the rescan of an offset already decoded.)
string(data, off) ==
    LET d == Drop(data, off) IN Utf8Decode(Slice(d, 0, FirstNul(d, 0)))

\* one Func of go12_funcs (lines 120-135); name NoneSeq when string() raises
Go12Func(go12, data, i) ==
    LET ps == go12.ptrsize
        entry == uintptr(go12, Drop(go12.functab, 2 * i * ps))
        end == uintptr(go12, Drop(go12.functab, (2 * i + 2) * ps))
        info == Drop(data, uintptr(go12, Drop(go12.functab, (2 * i + 1) * ps)))
        frame_size == u32(go12.binary, Drop(info, ps + 2 * 4))
        name == string(data, u32(go12.binary, Drop(info, ps)))
    IN  [sym |-> [value |-> entry, type |-> 84, name |-> name, go_type |-> 0],
         entry |-> entry, end |-> end, params |-> <<>>, locals |-> <<>>,
         frame_size |-> frame_size, line_table |-> "go12line", obj |-> 0]

\* Go12State.go12_funcs: [exc, funcs]
go12_yielded(funcs) ==
    IF \E i \in 1..Len(funcs) : funcs[i].sym.name = NoneSeq
    THEN [exc |-> "UnicodeDecodeError", funcs |-> <<>>]
    ELSE [exc |-> "none", funcs |-> funcs]

go12_funcs(go12, data) ==
    go12_yielded([i \in 1..((Len(go12.functab) \div go12.ptrsize) \div 2) |->
                     Go12Func(go12, data, i - 1)])

\* Go12State.init_file_map: [exc, go12].  file_map is a dict from the start,
\* so the guard returns at once; past the guard the comprehension calls
\* self.string with one argument, a TypeError as soon as it has an element.
init_file_map(go12) ==
    IF go12.file_map # None THEN [exc |-> "none", go12 |-> go12]
    ELSE IF go12.nfiletab <= 1
    THEN [exc |-> "none", go12 |-> [go12 EXCEPT !.file_map = EmptyMap]]
    ELSE [exc |-> "TypeError", go12 |-> go12]

\* Go12State.go12_map_files(m, obj): [exc, go12, m]
go12_map_files(go12, m, obj) ==
    LET r == init_file_map(go12) IN
    [exc |-> r.exc, go12 |-> r.go12,
     m |-> IF r.exc # "none" THEN m
           ELSE [k \in (DOMAIN m) \cup (DOMAIN r.go12.file_map) |->
                    IF k \in DOMAIN r.go12.file_map THEN obj ELSE m[k]]]

(***************************************************************************)
(* Modern tables fed to the model.  ModernTable lays a table out as        *)
(* go12_init and go12_funcs read it: header, nfunctab, (entry, info        *)
(* offset) pairs, the end address, the file-table offset, the info blobs   *)
(* (entry, name offset, 4 bytes, frame size), the file table (count,       *)
(* string offsets) and the strings.                                        *)
(***************************************************************************)
Str_main_main == <<109, 97, 105, 110, 46, 109, 97, 105, 110>>   \* "main.main"
Str_f == <<102>>                                                \* "f"
Str_a_go == <<97, 46, 103, 111>>                                \* "a.go"
Str_b_go == <<98, 46, 103, 111>>                                \* "b.go"

RECURSIVE StrOffsets(_, _)
StrOffsets(names, at) ==
    IF names = <<>> THEN <<>>
    ELSE <<at>> \o StrOffsets(Tail(names), at + Len(Head(names)) + 1)

RECURSIVE NulTerminated(_)
NulTerminated(names) ==
    IF names = <<>> THEN <<>> ELSE Head(names) \o <<0>> \o NulTerminated(Tail(names))

ModernHeader(magic, b4, b5, quantum, ptrsize) == magic \o <<b4, b5, quantum, ptrsize>>

ModernBody(order, ps, funcs, files) ==
    LET n == Len(funcs)
        body_len == 8 + ps + (2 * n + 1) * ps + 4
        info_size == ps + 12
        filetab_off == body_len + n * info_size
        nfiletab == Len(files) + 1
        str_off == filetab_off + 4 * nfiletab
        names == [i \in 1..n |-> funcs[i].name] \o files
        offs == StrOffsets(names, str_off)
    IN  to_bytes(order, n, ps)
        \o Concat([i \in 1..n |->
              to_bytes(order, funcs[i].entry, ps)
              \o to_bytes(order, body_len + (i - 1) * info_size, ps)])
        \o to_bytes(order, 12288, ps)
        \o to_bytes(order, filetab_off, 4)
        \o Concat([i \in 1..n |->
              to_bytes(order, funcs[i].entry, ps) \o to_bytes(order, offs[i], 4)
              \o to_bytes(order, 0, 4) \o to_bytes(order, funcs[i].frame, 4)])
        \o to_bytes(order, nfiletab, 4)
        \o Concat([i \in 1..Len(files) |-> to_bytes(order, offs[n + i], 4)])
        \o NulTerminated(names)

ModernFuncs ==
    << [entry |-> 4096, name |-> Str_main_main, frame |-> 16],
       [entry |-> 8192, name |-> Str_f, frame |-> 32],
       [entry |-> 8448, name |-> Str_f, frame |-> 8],
       [entry |-> 8704, name |-> Str_f, frame |-> 8] >>

ModernFiles == <<Str_a_go, Str_b_go>>

ModernTable(order, quantum, ps, n, nfiles) ==
    ModernHeader(IF order = "big" THEN GO12_MAGIC ELSE Reverse(GO12_MAGIC), 0, 0, quantum, ps)
    \o ModernBody(order, ps, SubSeq(ModernFuncs, 1, n), SubSeq(ModernFiles, 1, nfiles))

Prefixes(b) == {SubSeq(b, 1, k) : k \in 0..Len(b)}

\* header bytes of every kind the check tells apart, over a one-function table
\* laid out for the header's own order and pointer size
HeaderTables ==
    { ModernHeader(magic, b4, b5, q, ps)
      \o ModernBody(IF magic = GO12_MAGIC THEN "big" ELSE "little",
                    IF ps = 4 THEN 4 ELSE 8,
                    SubSeq(ModernFuncs, 1, 1),
                    SubSeq(ModernFiles, 1, 1))
      : magic \in {GO12_MAGIC, Reverse(GO12_MAGIC), <<251, 255, 255, 254>>},
        b4 \in {0, 1}, b5 \in {0, 1}, q \in {1, 2, 3, 4}, ps \in {4, 5, 8} }

\* the tables cut at every length
HeaderBuffers == UNION {Prefixes(tb) : tb \in HeaderTables}


(***************************************************************************)
(* symtab.py: walksymtab, the generator over the legacy symbol stream.     *)
(* Its frame is the record gen; a step runs it to the next yield, to its   *)
(* end (kind "stop": a return, also "return DecodingError(...)", which     *)
(* raises nothing) or to an exception (kind "raise").  fault records that  *)
(* the step met a read past the buffer end ("eof") or a pointer-size byte  *)
(* other than 4 and 8 ("ptrsize").                                         *)
(***************************************************************************)
LITTLE_ENDIAN_SYMTAB == <<253, 255, 255, 255, 0, 0, 0>>
BIG_ENDIAN_SYMTAB == <<255, 255, 255, 253, 0, 0, 0>>
OLD_LITTLE_ENDIAN_SYMTAB == <<254, 255, 255, 255, 0, 0>>

PathTypes == {90, 122}                \* b"Zz"
FuncTypes == {84, 116, 76, 108}       \* b"TtLl"

StartsWith(b, prefix) == Slice(b, 0, Len(prefix)) = prefix

\* the branch of lines 47-54 that data[:7] takes
SymtabMagic(data) ==
    LET data_magic == Slice(data, 0, 7) IN
    IF StartsWith(data_magic, OLD_LITTLE_ENDIAN_SYMTAB) THEN "old"
    ELSE IF StartsWith(data_magic, BIG_ENDIAN_SYMTAB) THEN "new_big"
    ELSE IF StartsWith(data_magic, LITTLE_ENDIAN_SYMTAB) THEN "new_little"
    ELSE "other"

\* the order with LITTLE_ENDIAN as the default of line 45: what C6 must tell apart
SymtabOrder_LittleDefault(magic) == IF magic = "new_big" THEN "big" ELSE "little"

\* ByteOrder chosen by lines 45-54
SymtabOrder(magic) == IF magic \in {"old", "new_little"} THEN "little" ELSE "big"

GenInit ==
    [state |-> "unstarted", p |-> <<>>, new_table_format |-> FALSE, order |-> "big",
     ptrsz |-> 0, s |-> [value |-> 0, typ |-> 0, name |-> <<>>, gotype |-> 0],
     i |-> Unbound, nnul |-> Unbound]

Step(kind, exc, fault, gen) == [kind |-> kind, exc |-> exc, fault |-> fault, gen |-> gen]

\* lines 41-66: up to the first test of the while loop
SetDone(g) == [g EXCEPT !.state = "done"]

\* lines 56-66, with the generator frame g0 that lines 41-54 leave
walk_ptrsize(data, magic, g0) ==
    IF ~g0.new_table_format
    THEN Step("ok", "none", "none",
              [g0 EXCEPT !.p = IF magic = "old" THEN Drop(data, 6) ELSE data])
    ELSE IF Len(data) < 8 THEN Step("raise", "DecodingError", "eof", SetDone(g0))
    ELSE IF At(data, 7) \notin {4, 8}
    THEN Step("stop", "none", "ptrsize", SetDone([g0 EXCEPT !.ptrsz = At(data, 7)]))
    ELSE Step("ok", "none", "none", [g0 EXCEPT !.ptrsz = At(data, 7), !.p = Drop(data, 8)])

\* lines 45-54: the order and the layout that the branch magic selects
walk_magic(data, magic) ==
    walk_ptrsize(data, magic,
                 [GenInit EXCEPT !.state = "running",
                                 !.new_table_format = (magic \in {"new_big", "new_little"}),
                                 !.order = SymtabOrder(magic)])

walk_start(data) ==
    IF Len(data) = 0 THEN Step("stop", "none", "none", SetDone(GenInit))
    ELSE walk_magic(data, SymtabMagic(data))

\* lines 90-93: the continuation bytes of a variable-width value.
\* "p[0] & 0x7F << shift" is p[0] & (0x7F << shift) in Python.
RECURSIVE VarintLoop(_, _, _)
VarintLoop(p, value, shift) ==
    IF Len(p) > 0 /\ BitAnd(At(p, 0), 128) # 0
    THEN VarintLoop(Tail(p), BitOr(value, BitAnd(At(p, 0), 127 * Pow2(shift))), shift + 7)
    ELSE [p |-> p, value |-> value, shift |-> shift]

Fields(kind, exc, fault, p, typ, value, gotype) ==
    [kind |-> kind, exc |-> exc, fault |-> fault, p |-> p, typ |-> typ,
     value |-> value, gotype |-> gotype]

\* lines 74-78: the letter of a 6-bit type code
TypeLetter(t6) == IF t6 < 26 THEN t6 + 65 ELSE t6 + 97 - 26

\* lines 97-104: the Go type of a new-format record, read at p2
new_gotype(g, typ, go_type, value, p2) ==
    IF go_type /\ Len(p2) < g.ptrsz
    THEN Fields("raise", "DecodingError", "eof", p2, typ, value, g.s.gotype)
    ELSE Fields("ok", "none", "none",
                IF go_type THEN Drop(p2, g.ptrsz) ELSE p2, typ, value,
                IF go_type THEN from_bytes(g.order, Slice(p2, 0, g.ptrsz)) ELSE g.s.gotype)

\* lines 80-96: the value of a new-format record, read at p1; v is what the
\* loop of lines 90-93 leaves
new_value(g, typ, wide_value, go_type, p1, v) ==
    IF wide_value /\ Len(p1) < g.ptrsz
    THEN Fields("raise", "DecodingError", "eof", p1, typ, g.s.value, g.s.gotype)
    ELSE IF wide_value
    THEN new_gotype(g, typ, go_type, from_bytes(g.order, Slice(p1, 0, g.ptrsz)),
                    Drop(p1, g.ptrsz))
    ELSE IF Len(v.p) = 0
    THEN Fields("stop", "none", "eof", v.p, typ, v.value, g.s.gotype)
    ELSE new_gotype(g, typ, go_type, BitOr(v.value, At(v.p, 0) * Pow2(v.shift)),
                    Drop(v.p, 1))

\* lines 70-104: type, value and Go type of a new-format record
NewFormatFields(g) ==
    new_value(g, TypeLetter(BitAnd(At(g.p, 0), 63)), BitAnd(At(g.p, 0), 64) # 0,
              BitAnd(At(g.p, 0), 128) # 0, Tail(g.p), VarintLoop(Tail(g.p), 0, 0))

\* lines 106-115: value and type of an old-format record
old_type(g, value) ==
    IF Len(g.p) < 5
    THEN Fields("raise", "DecodingError", "eof", g.p, g.s.typ, value, g.s.gotype)
    ELSE IF BitAnd(At(g.p, 4), 128) = 0
    THEN Fields("raise", "DecodingError", "none", g.p, g.s.typ, value, g.s.gotype)
    ELSE Fields("ok", "none", "none", Drop(g.p, 5), At(g.p, 4) - 128, value, g.s.gotype)

OldFormatFields(g) == old_type(g, from_bytes(g.order, Slice(g.p, 0, 4)))

\* lines 127-130: the scan for the 00 00 that ends a path payload, from the
\* even offset j; i is the loop variable's value so far
RECURSIVE PairScan(_, _, _)
PairScan(p, j, i) ==
    IF j >= Len(p) THEN [exc |-> "none", found |-> FALSE, i |-> i]
    ELSE IF At(p, j) # 0 THEN PairScan(p, j + 2, j)
    ELSE IF j + 1 >= Len(p) THEN [exc |-> "IndexError", found |-> FALSE, i |-> j]
    ELSE IF At(p, j + 1) = 0 THEN [exc |-> "none", found |-> TRUE, i |-> j]
    ELSE PairScan(p, j + 2, j)

NameOut(kind, exc, fault, p, name, i, nnul) ==
    [kind |-> kind, exc |-> exc, fault |-> fault, p |-> p, name |-> name,
     i |-> i, nnul |-> nnul]

\* lines 132-136: the name is p[:i], the read resumes at p[i + nnul:]
name_end(g, p, i, nnul) ==
    IF Len(p) < i + nnul
    THEN NameOut("raise", "DecodingError", "eof", p, g.s.name, i, nnul)
    ELSE NameOut("ok", "none", "none", Drop(p, i + nnul), Slice(p, 0, i), i + nnul, nnul)

\* lines 125-131: a path record, with p already moved past the first name
name_scan(g, pz, scan, nnul) ==
    IF scan.exc # "none" THEN NameOut("raise", scan.exc, "none", pz, g.s.name, scan.i, nnul)
    ELSE name_end(g, pz, scan.i, IF scan.found THEN 2 ELSE nnul)

\* lines 124-131, with i and nnul as the first scan leaves them
name_path(g, p, typ, i, nnul) ==
    IF i = Unbound \/ nnul = Unbound
    THEN NameOut("raise", "UnboundLocalError", "none", p, g.s.name, i, nnul)
    ELSE IF typ \in PathTypes
    THEN name_scan(g, Drop(p, i + nnul), PairScan(Drop(p, i + nnul), 0, i), nnul)
    ELSE name_end(g, p, i, nnul)

\* lines 119-123: the scan for the first 0 byte, found at k (Len(p) if none)
name_first(g, p, typ, k) ==
    name_path(g, p, typ,
              IF Len(p) = 0 THEN g.i ELSE IF k < Len(p) THEN k ELSE Len(p) - 1,
              IF k < Len(p) THEN 1 ELSE g.nnul)

\* lines 117-136: the name of a record of type typ, read at p
NameField(g, p, typ) == name_first(g, p, typ, FirstNul(p, 0))

\* lines 138-144: the Go type of an old-format record, and the yield
record_end(g2, n) ==
    IF n.kind # "ok" THEN Step(n.kind, n.exc, n.fault, SetDone(g2))
    ELSE IF g2.new_table_format THEN Step("yield", "none", "none", g2)
    ELSE IF Len(n.p) < 4 THEN Step("raise", "DecodingError", "eof", SetDone(g2))
    ELSE Step("yield", "none", "none",
              [g2 EXCEPT !.p = Drop(n.p, 4),
                         !.s.gotype = from_bytes(g2.order, Slice(n.p, 0, 4))])

\* the frame after the name field n has been read
record_name(g1, n) ==
    record_end([g1 EXCEPT !.p = n.p, !.s.name = n.name, !.i = n.i, !.nnul = n.nnul], n)

\* lines 117-144, with the frame g1 that the fields f leave
record_fields(g1, f) ==
    IF f.kind # "ok" THEN Step(f.kind, f.exc, f.fault, SetDone(g1))
    ELSE record_name(g1, NameField(g1, f.p, f.typ))

\* the frame after type, value and Go type f have been read
record_start(g, f) ==
    record_fields([g EXCEPT !.p = f.p, !.s.typ = f.typ, !.s.value = f.value,
                            !.s.gotype = f.gotype], f)

\* lines 67-144: one turn of the while loop, to the yield
decode_record(g) ==
    IF Len(g.p) < 4 THEN Step("stop", "none", "none", SetDone(g))
    ELSE record_start(g, IF g.new_table_format THEN NewFormatFields(g)
                         ELSE OldFormatFields(g))

\* the generator runs on from h unless it has already ended
walk_resume(h) == IF h.kind = "ok" THEN decode_record(h.gen) ELSE h

\* next(gen): resume the generator of walksymtab(data)
walk_next(g, data) ==
    walk_resume(IF g.state = "unstarted" THEN walk_start(data)
                ELSE Step("ok", "none", "none", g))


(***************************************************************************)
(* symtab.py: new_table.  Objects are held by reference: a Func is an id   *)
(* into heap, an Obj an index into t.objs (every Obj the function makes    *)
(* while a function or path record is assembled is also appended there), a *)
(* Sym an index into t.syms.  t.syms[i] of the code is t.syms[i + 1] here. *)
(***************************************************************************)
VARIABLES
    pc,         \* where the operation under way stands
    outcome,    \* "none" while it runs, then "Table" or the exception raised
    symtab,     \* the legacy buffer given to new_table
    pcln,       \* the LineTable given to new_table
    gen,        \* the frame of the walksymtab generator
    loc,        \* the locals of new_table
    t,          \* the Table under construction
    heap,       \* every Func made so far
    fault,      \* what the reader met: "none", "eof" or "ptrsize"
    raw,        \* the raw name of each record yielded so far
    prs         \* the frame of LineTable.parse

vars == <<pc, outcome, symtab, pcln, gen, loc, t, heap, fault, raw, prs>>

\* Table() and the locals of lines 153-156; go12, obj and end start unbound
TableInit == [syms |-> <<>>, funcs |-> <<>>, files |-> EmptyMap, objs |-> <<>>,
              go12line |-> FALSE]
LocInit == [go12 |-> FALSE, fname |-> EmptyMap, nf |-> 0, nz |-> 0, lasttyp |-> 0,
            obj |-> Unbound, lastf |-> 0, i |-> 0, end |-> Unbound]
ObjInit == [funcs |-> <<>>, paths |-> NoneSeq]
ParseIdle == [b |-> <<>>, pc |-> 0, line |-> 0, target_pc |-> 0, target_line |-> 0,
              stream |-> <<>>, pc0 |-> 0, line0 |-> 0]

\* JoinElt without the test for a trailing '/': what C5 must tell apart
JoinElt_NoSlashTest(name, elt) == IF name # <<>> THEN name \o <<47>> \o elt ELSE name \o elt

\* lines 172-174: one resolved element appended to the path built so far
JoinElt(name, elt) ==
    IF name # <<>> /\ name[Len(name)] # 47 THEN name \o <<47>> \o elt ELSE name \o elt

\* lines 167-174: the payload of a path record resolved against fname
RECURSIVE ResolvePath(_, _, _)
ResolvePath(fname, payload, name) ==
    IF payload = <<>> THEN [exc |-> "none", name |-> name]
    ELSE LET elt_idx == FromBig(Slice(payload, 0, 2)) IN
         IF elt_idx \notin DOMAIN fname THEN [exc |-> "DecodingError", name |-> name]
         ELSE ResolvePath(fname, Drop(payload, 2), JoinElt(name, fname[elt_idx]))

\* line 176: s.name.decode(SYMS_ENCODING).replace("·", ".")
DecodeName(b) ==
    LET d == Utf8Decode(b) IN
    IF d = NoneSeq THEN [exc |-> "UnicodeDecodeError", name |-> <<>>]
    ELSE [exc |-> "none", name |-> [k \in 1..Len(d) |-> IF d[k] = 183 THEN 46 ELSE d[k]]]

\* lines 159-182: the body of the loop over the records, for the record s
\* lines 164-182, with the name r the record resolves or decodes to
named_sym(l, syms, s, r) ==
    [exc |-> r.exc,
     syms |-> Append(syms, [value |-> s.value, type |-> s.typ, name |-> r.name,
                            go_type |-> s.gotype, func |-> 0]),
     loc |-> IF r.exc # "none" THEN l
             ELSE [l EXCEPT !.fname = IF s.typ = 102 THEN MapPut(@, s.value, r.name) ELSE @,
                            !.nf = IF s.typ \in FuncTypes THEN @ + 1 ELSE @,
                            !.lasttyp = s.typ]]

consume_sym(l, syms, s) ==
    named_sym([l EXCEPT !.nz = IF s.typ \in PathTypes /\ l.lasttyp \notin PathTypes
                               THEN @ + 1 ELSE @],
              syms, s,
              IF s.typ \in PathTypes THEN ResolvePath(l.fname, s.name, <<>>)
              ELSE DecodeName(s.name))

\* the value a "for end in range(i + 1, len(syms))" loop leaves in end when it
\* breaks at the first sym whose type is in stop: end is not assigned when
\* the range is empty, and is the last index when nothing breaks
RECURSIVE ScanEnd(_, _, _, _)
ScanEnd(syms, j, stop, end) ==
    IF j >= Len(syms) THEN end
    ELSE IF syms[j + 1].type \in stop THEN j
    ELSE ScanEnd(syms, j + 1, stop, j)

\* t.syms[lo:hi] as indices
SymRange(syms, lo, hi) == [k \in 1..(Min(hi, Len(syms)) - Min(lo, Len(syms))) |-> lo + k - 1]

AllTypes == 0..255

\* Func() as line 239 makes it (obj 0: None)
FuncInit == [sym |-> None, entry |-> 0, end |-> 0, params |-> <<>>, locals |-> <<>>,
             frame_size |-> 0, line_table |-> "None", obj |-> 0]

\* lines 252-259: frame size, params and locals of the records i..end-1
RECURSIVE CollectLocals(_, _, _, _, _)
CollectLocals(fn, syms, j, end, svalue) ==
    IF j >= end THEN fn
    ELSE LET ty == syms[j + 1].type IN
         CollectLocals(
            IF ty = 109 THEN [fn EXCEPT !.frame_size = svalue]
            ELSE IF ty = 112 THEN [fn EXCEPT !.params = Append(@, j)]
            ELSE IF ty = 97 THEN [fn EXCEPT !.locals = Append(@, j)]
            ELSE fn,
            syms, j + 1, end, svalue)

EtextNames == { <<114, 117, 110, 116, 105, 109, 101, 46, 101, 116, 101, 120, 116>>,
                <<101, 116, 101, 120, 116>> }      \* "runtime.etext", "etext"


Result(exc, l, tb, hp) == [exc |-> exc, loc |-> l, t |-> tb, heap |-> hp]

\* lines 184-192: the Objs, the file map and the start of the assembly loop
post_walk(l, tb, lt) ==
    IF tb.go12line
    THEN LET m == go12_map_files(lt.go12, tb.files, 1) IN
         Result(m.exc, [l EXCEPT !.obj = 1, !.lastf = 0, !.i = 0],
                [tb EXCEPT !.objs = <<ObjInit>>, !.files = m.m], <<>>)
    ELSE Result("none", [l EXCEPT !.lastf = 0, !.i = 0],
                [tb EXCEPT !.objs = [k \in 1..l.nz |-> ObjInit]], <<>>)

\* lines 196-218: the sym at i is a path symbol
assemble_path(l, tb, hp) ==
    IF ~tb.go12line THEN Result("none", [l EXCEPT !.i = @ + 1], tb, hp)
    ELSE IF l.obj = Unbound THEN Result("UnboundLocalError", l, tb, hp)
    ELSE LET objs1 == [tb.objs EXCEPT ![l.obj].funcs = Drop(tb.funcs, l.lastf)]
             objs2 == Append(objs1, ObjInit)
             obj == Len(objs2)
             end == ScanEnd(tb.syms, l.i + 1, AllTypes \ PathTypes, l.end)
             l1 == [l EXCEPT !.lastf = Len(tb.funcs), !.obj = obj, !.end = end]
         IN  IF end = Unbound
             THEN Result("UnboundLocalError", l1, [tb EXCEPT !.objs = objs2], hp)
             ELSE Result("none", [l1 EXCEPT !.i = end],
                         [tb EXCEPT !.objs =
                              [objs2 EXCEPT ![obj].paths = SymRange(tb.syms, l.i, end)]],
                         hp)

\* lines 219-261: the sym at i is a function symbol; svalue is s.value, the
\* value of the record the generator yielded last.  With go12line None obj
\* is unbound at line 244, so lines 248-250 (pcln.slice) are never reached.
assemble_func(l, tb, hp, svalue) ==
    LET sym == tb.syms[l.i + 1]
        hp1 == IF tb.funcs # <<>>
               THEN [hp EXCEPT ![tb.funcs[Len(tb.funcs)]].end = sym.value] ELSE hp
        end == ScanEnd(tb.syms, l.i + 1, FuncTypes \cup PathTypes, 0)
        id == Len(hp1) + 1
        tb1 == [tb EXCEPT !.funcs = Append(@, id), !.syms[l.i + 1].func = id]
        fn0 == [FuncInit EXCEPT !.sym = [sym EXCEPT !.func = id], !.entry = sym.value]
        fn == CollectLocals([fn0 EXCEPT !.obj = l.obj, !.line_table = "go12line"],
                            tb.syms, l.i, end, svalue)
    IN  IF sym.name \in EtextNames THEN Result("none", [l EXCEPT !.i = @ + 1], tb, hp1)
        ELSE IF l.obj = Unbound
        THEN Result("UnboundLocalError", [l EXCEPT !.end = end], tb1, Append(hp1, fn0))
        ELSE Result("none", [l EXCEPT !.end = end, !.i = end], tb1, Append(hp1, fn))

\* lines 262-263: any other sym
assemble_other(l, tb, hp) == Result("none", [l EXCEPT !.i = @ + 1], tb, hp)

\* lines 265-272: the fallback to the modern function table, the last Obj's
\* funcs, and the return
last_obj(l, tb, hp) ==
    IF l.obj = Unbound THEN Result("UnboundLocalError", l, tb, hp)
    ELSE Result("Table", l, [tb EXCEPT !.objs[l.obj].funcs = Drop(tb.funcs, l.lastf)], hp)

\* lines 266-267, with r what go12_funcs yields
go12_fallback(l, tb, hp, r) ==
    IF r.exc # "none" THEN Result(r.exc, l, tb, hp)
    ELSE last_obj(l, [tb EXCEPT !.funcs = [k \in 1..Len(r.funcs) |-> Len(hp) + k]],
                  hp \o r.funcs)

finish(l, tb, hp, lt) ==
    IF tb.go12line /\ l.nf = 0 THEN go12_fallback(l, tb, hp, go12_funcs(lt.go12, lt.data))
    ELSE last_obj(l, tb, hp)


(***************************************************************************)
(* pclntab.py: the classic line table.                                     *)
(***************************************************************************)
OLD_QUANTUM == 1

\* the loop test of LineTable.parse (line 219)
parse_continues(f) == f.pc <= f.target_pc /\ f.line # f.target_line /\ Len(f.b) > 0

\* one opcode without the continue of line 235: what C7 must tell apart
parse_step_NoContinue(f) ==
    IF At(f.b, 0) = 0 THEN
        IF Len(f.b) < 5 THEN [f EXCEPT !.b = <<>>, !.pc = @ + OLD_QUANTUM]
        ELSE [f EXCEPT !.b = Drop(f.b, 5), !.line = @ + FromBig(Slice(f.b, 1, 5)),
                       !.pc = @ + OLD_QUANTUM]
    ELSE IF At(f.b, 0) <= 64
    THEN [f EXCEPT !.b = Tail(f.b), !.line = @ + At(f.b, 0), !.pc = @ + OLD_QUANTUM]
    ELSE IF At(f.b, 0) <= 128
    THEN [f EXCEPT !.b = Tail(f.b), !.line = @ - (At(f.b, 0) - 64), !.pc = @ + OLD_QUANTUM]
    ELSE [f EXCEPT !.b = Tail(f.b), !.pc = @ + OLD_QUANTUM * (At(f.b, 0) - 128) + OLD_QUANTUM]

\* lines 220-236: one opcode
parse_step(f) ==
    LET code == At(f.b, 0)
        b == Tail(f.b)
    IN  IF code = 0 THEN
            IF Len(b) < 4 THEN [f EXCEPT !.b = <<>>, !.pc = @ + OLD_QUANTUM]
            ELSE [f EXCEPT !.b = Drop(b, 4), !.line = @ + FromBig(Slice(b, 0, 4)),
                           !.pc = @ + OLD_QUANTUM]
        ELSE IF code <= 64 THEN [f EXCEPT !.b = b, !.line = @ + code, !.pc = @ + OLD_QUANTUM]
        ELSE IF code <= 128
        THEN [f EXCEPT !.b = b, !.line = @ - (code - 64), !.pc = @ + OLD_QUANTUM]
        ELSE [f EXCEPT !.b = b, !.pc = @ + OLD_QUANTUM * (code - 128)]

(***************************************************************************)
(* Legacy streams fed to the model: records written in the layouts that    *)
(* walksymtab reads.                                                       *)
(***************************************************************************)
Rec(typ, value, name) ==
    [typ |-> typ, value |-> value, name |-> name, path |-> FALSE, wide |-> FALSE, gt |-> FALSE]
PathRec(typ, idxs) ==
    [typ |-> typ, value |-> 0, name |-> idxs, path |-> TRUE, wide |-> FALSE, gt |-> FALSE]

Str_dir == <<100, 105, 114>>                            \* "dir"
Str_file_go == <<102, 105, 108, 101, 46, 103, 111>>     \* "file.go"
Str_slash == <<47>>                                     \* "/"
Str_etext == <<101, 116, 101, 120, 116>>                \* "etext"
Str_x == <<120>>                                        \* "x"
Str_frame == <<46, 102, 114, 97, 109, 101>>             \* ".frame"

K_f_dir == Rec(102, 1, Str_dir)
K_f_file == Rec(102, 2, Str_file_go)
K_f_root == Rec(102, 3, Str_slash)
K_f_empty == Rec(102, 4, <<>>)
K_Z12 == PathRec(90, <<1, 2>>)
K_z32 == PathRec(122, <<3, 2>>)
K_Z42 == PathRec(90, <<4, 2>>)
K_T_main == [Rec(84, 4096, Str_main_main) EXCEPT !.wide = TRUE, !.gt = TRUE]
K_l_etext == Rec(108, 8192, Str_etext)
K_p_x == Rec(112, 8, Str_x)
K_a_x == Rec(97, 12, Str_x)
K_m_frame == Rec(109, 24, Str_frame)
K_a_big == Rec(97, 128 * 128 * 128, Str_x)      \* a value of four variable-width bytes

Kinds == {K_f_dir, K_f_file, K_f_root, K_Z12, K_z32, K_T_main, K_l_etext, K_p_x, K_m_frame}

RECURSIVE SeqsUpTo(_, _)
SeqsUpTo(S, n) ==
    IF n = 0 THEN {<<>>}
    ELSE LET shorter == SeqsUpTo(S, n - 1) IN
         shorter \cup {Append(q, x) : q \in {r \in shorter : Len(r) = n - 1}, x \in S}

RECURSIVE PairBytes(_)
PairBytes(idxs) == IF idxs = <<>> THEN <<>> ELSE ToBig(Head(idxs), 2) \o PairBytes(Tail(idxs))

\* the name field: a NUL-terminated name, or for a path record a NUL, the
\* 2-byte indices and 00 00
NameBytes(k) == IF k.path THEN <<0>> \o PairBytes(k.name) \o <<0, 0>> ELSE k.name \o <<0>>

OldRecord(order, k) ==
    to_bytes(order, k.value, 4) \o <<128 + k.typ>> \o NameBytes(k) \o to_bytes(order, 0, 4)

RECURSIVE Varint(_)
Varint(v) == IF v < 128 THEN <<v>> ELSE <<128 + (v % 128)>> \o Varint(v \div 128)

NewRecord(order, ptrsz, k) ==
    <<(IF k.typ < 97 THEN k.typ - 65 ELSE k.typ - 97 + 26)
      + (IF k.wide THEN 64 ELSE 0) + (IF k.gt THEN 128 ELSE 0)>>
    \o (IF k.wide THEN to_bytes(order, k.value, ptrsz) ELSE Varint(k.value))
    \o NameBytes(k)
    \o (IF k.gt THEN to_bytes(order, 0, ptrsz) ELSE <<>>)

\* a stream in one of the wire formats: the old magic, a new magic with its
\* pointer-size byte, or no magic at all
Formats ==
    { [magic |-> "old", order |-> "little", ptrsz |-> 4],
      [magic |-> "new", order |-> "little", ptrsz |-> 4],
      [magic |-> "new", order |-> "little", ptrsz |-> 8],
      [magic |-> "new", order |-> "big", ptrsz |-> 4],
      [magic |-> "new", order |-> "big", ptrsz |-> 8],
      [magic |-> "new", order |-> "little", ptrsz |-> 5],
      [magic |-> "none", order |-> "little", ptrsz |-> 4],
      [magic |-> "none", order |-> "big", ptrsz |-> 4] }

OldFormat == [magic |-> "old", order |-> "little", ptrsz |-> 4]

MagicBytes(f) ==
    IF f.magic = "old" THEN OLD_LITTLE_ENDIAN_SYMTAB
    ELSE IF f.magic = "none" THEN <<>>
    ELSE (IF f.order = "big" THEN BIG_ENDIAN_SYMTAB ELSE LITTLE_ENDIAN_SYMTAB) \o <<f.ptrsz>>

Encode(f, recs) ==
    MagicBytes(f)
    \o Concat([i \in 1..Len(recs) |->
                 IF f.magic = "new" THEN NewRecord(f.order, f.ptrsz, recs[i])
                 ELSE OldRecord(f.order, recs[i])])

\* every cut of a stream
Cuts(f, recs) == Prefixes(Encode(f, recs))

\* line tables: none, one whose header fails the check, and modern ones
PclnLegacy == <<>>
PclnModern == ModernTable("little", 1, 8, 1, 1)

LegacyPclns ==
    {PclnLegacy, ModernHeader(Reverse(GO12_MAGIC), 0, 0, 3, 8) \o ModernBody("little", 8, <<>>, <<>>)}

\* a big-endian table has 4-byte pointers here: go12_funcs reads it
\* little-endian, and an 8-byte field read the wrong way round is above 2^31
WholeModernPclns ==
    { ModernTable(o.order, q, o.ps, n, nfiles) :
        o \in {[order |-> "little", ps |-> 8], [order |-> "little", ps |-> 4],
               [order |-> "big", ps |-> 4]},
        q \in {1, 4}, n \in 0..MaxModernFuncs, nfiles \in 0..2 }

ModernPclns == WholeModernPclns \cup {SubSeq(PclnModern, 1, k) : k \in 16..Len(PclnModern)}

ScenarioStreams ==
    { <<K_f_dir, K_f_file, K_Z12, K_p_x>>,
      <<K_f_root, K_f_file, K_z32, K_p_x>>,
      <<K_f_empty, K_f_file, K_Z42, K_p_x>>,
      <<K_f_dir, K_Z12>>,
      <<K_T_main, K_p_x, K_a_x, K_m_frame>>,
      <<K_Z12, K_T_main, K_p_x, K_z32, K_T_main, K_p_x>> }

Input(st, ln) == [symtab |-> st, pcln |-> ln]

TableInputs ==
    {Input(Encode(OldFormat, recs), ln) :
        recs \in SeqsUpTo(Kinds, MaxRecs) \cup ScenarioStreams, ln \in {PclnLegacy, PclnModern}}
    \cup {Input(Encode(f, recs), ln) :
            f \in Formats, recs \in SeqsUpTo(Kinds, 1), ln \in {PclnLegacy, PclnModern}}
    \cup {Input(st, ln) :
            st \in UNION {Cuts(f, recs) :
                            f \in {OldFormat, [magic |-> "new", order |-> "little", ptrsz |-> 8]},
                            recs \in {<<K_T_main>>, <<K_f_dir, K_z32>>, <<K_f_dir, K_a_big>>}},
            ln \in {PclnLegacy, PclnModern}}
    \cup {Input(Encode(OldFormat, recs), ln) :
            recs \in {<<>>, <<K_f_dir>>, <<K_f_dir, K_f_file, K_Z12, K_p_x>>},
            ln \in ModernPclns \cup LegacyPclns}

(***************************************************************************)
(* new_table(symtab, pcln), step by step.                                  *)
(***************************************************************************)
Idle == /\ gen = GenInit /\ loc = LocInit /\ t = TableInit /\ heap = <<>>
        /\ fault = "none" /\ raw = <<>>

InitTable ==
    /\ \E inp \in TableInputs :
          symtab = inp.symtab /\ pcln = new_line_table(inp.pcln, 0)
    /\ pc = "start" /\ outcome = "none" /\ prs = ParseIdle /\ Idle

Started(r) ==
    /\ pcln' = r.lt
    /\ IF r.exc # "none"
       THEN pc' = "done" /\ outcome' = r.exc /\ UNCHANGED <<t, loc>>
       ELSE /\ pc' = "walk" /\ outcome' = "none"
            /\ t' = [TableInit EXCEPT !.go12line = (r.value # None)]
            /\ loc' = [LocInit EXCEPT !.go12 = (r.value # None)]

\* lines 148-156
NewTableStart ==
    /\ pc = "start"
    /\ Started(go12_property(pcln))
    /\ UNCHANGED <<symtab, gen, heap, fault, raw, prs>>

Consumed(c) ==
    /\ t' = [t EXCEPT !.syms = c.syms]
    /\ loc' = c.loc
    /\ IF c.exc # "none" THEN pc' = "done" /\ outcome' = c.exc
       ELSE UNCHANGED <<pc, outcome>>

Yielded(w) ==
    /\ w.kind = "yield"
    /\ gen' = w.gen
    /\ raw' = Append(raw, w.gen.s.name)
    /\ Consumed(consume_sym(loc, t.syms, w.gen.s))

\* line 158 yields a record: lines 159-182
WalkYield ==
    /\ pc = "walk"
    /\ Yielded(walk_next(gen, symtab))
    /\ UNCHANGED <<symtab, pcln, heap, fault, prs>>

Raised(w) ==
    /\ w.kind = "raise"
    /\ gen' = w.gen /\ fault' = w.fault
    /\ pc' = "done" /\ outcome' = w.exc

\* line 158: the generator raises
WalkRaise ==
    /\ pc = "walk"
    /\ Raised(walk_next(gen, symtab))
    /\ UNCHANGED <<symtab, pcln, loc, t, heap, raw, prs>>

Walked(r) ==
    /\ loc' = r.loc /\ t' = r.t
    /\ IF r.exc # "none" THEN pc' = "done" /\ outcome' = r.exc
       ELSE pc' = "assemble" /\ UNCHANGED outcome

Stopped(w) ==
    /\ w.kind = "stop"
    /\ gen' = w.gen /\ fault' = w.fault
    /\ Walked(post_walk(loc, t, pcln))

\* line 158: the generator ends; lines 184-192
WalkStop ==
    /\ pc = "walk"
    /\ Stopped(walk_next(gen, symtab))
    /\ UNCHANGED <<symtab, pcln, heap, raw, prs>>

Assembled(r) ==
    /\ loc' = r.loc /\ t' = r.t /\ heap' = r.heap
    /\ IF r.exc # "none" THEN pc' = "done" /\ outcome' = r.exc
       ELSE UNCHANGED <<pc, outcome>>
    /\ UNCHANGED <<symtab, pcln, gen, fault, raw, prs>>

\* one turn of the loop of line 193; the loops that never end are cut off
\* once they have made MaxLoopObjects objects more than any finite run makes
AssemblePath ==
    /\ pc = "assemble" /\ loc.i < Len(t.syms)
    /\ t.syms[loc.i + 1].type \in PathTypes
    /\ Len(t.objs) <= Len(t.syms) + MaxLoopObjects
    /\ Assembled(assemble_path(loc, t, heap))

AssembleFunc ==
    /\ pc = "assemble" /\ loc.i < Len(t.syms)
    /\ t.syms[loc.i + 1].type \in FuncTypes
    /\ Len(t.funcs) < Len(t.syms) + MaxLoopObjects
    /\ Assembled(assemble_func(loc, t, heap, gen.s.value))

AssembleOther ==
    /\ pc = "assemble" /\ loc.i < Len(t.syms)
    /\ t.syms[loc.i + 1].type \notin PathTypes \cup FuncTypes
    /\ Assembled(assemble_other(loc, t, heap))

\* lines 265-272
Finished(r) ==
    /\ loc' = r.loc /\ t' = r.t /\ heap' = r.heap
    /\ pc' = "done" /\ outcome' = r.exc

Finish ==
    /\ pc = "assemble" /\ loc.i >= Len(t.syms)
    /\ Finished(finish(loc, t, heap, pcln))
    /\ UNCHANGED <<symtab, pcln, gen, fault, raw, prs>>

NextTable ==
    \/ NewTableStart
    \/ WalkYield
    \/ WalkRaise
    \/ WalkStop
    \/ AssemblePath
    \/ AssembleFunc
    \/ AssembleOther
    \/ Finish

SpecTable == InitTable /\ [][NextTable]_vars

(***************************************************************************)
(* The modern header read on its own: LineTable.go12, then go12_funcs on   *)
(* the Go12State it leaves.                                                *)
(***************************************************************************)
InitHeader ==
    /\ \E b \in HeaderBuffers : pcln = new_line_table(b, 0)
    /\ symtab = <<>> /\ pc = "header" /\ outcome = "none" /\ prs = ParseIdle /\ Idle

Checked(r) ==
    /\ pcln' = r.lt
    /\ IF r.exc # "none" THEN pc' = "done" /\ outcome' = r.exc
       ELSE pc' = "checked" /\ outcome' = "none"

\* lines 158-163: the first read of the property
ReadGo12 ==
    /\ pc = "header"
    /\ Checked(go12_property(pcln))
    /\ UNCHANGED <<symtab, gen, loc, t, heap, fault, raw, prs>>

Enumerated(r) ==
    /\ heap' = r.funcs
    /\ outcome' = IF r.exc # "none" THEN r.exc ELSE "returned"

\* list(go12.go12_funcs(data)) on a table whose header passed the check
EnumFuncs ==
    /\ pc = "checked" /\ pcln.go12 # None
    /\ Enumerated(go12_funcs(pcln.go12, pcln.data))
    /\ pc' = "funcs"
    /\ UNCHANGED <<symtab, pcln, gen, loc, t, fault, raw, prs>>

NextHeader ==
    \/ ReadGo12
    \/ EnumFuncs

SpecHeader == InitHeader /\ [][NextHeader]_vars

(***************************************************************************)
(* LineTable.parse on its own, one opcode per step.                        *)
(***************************************************************************)
Opcodes == {0, 1, 2, 64, 65, 128, 129, 130}

ParseStreams ==
    SeqsUpTo(Opcodes, MaxOps) \cup {<<0, 0, 0, 0, 5>>, <<0, 0, 0, 0, 5, 129>>, <<3, 255>>}

\* (target_pc, target_line): never reached, the PC reached, the line reached
ParseTargets ==
    { [pc |-> 1000, line |-> 0 - 1], [pc |-> 11, line |-> 0 - 1], [pc |-> 1000, line |-> 7] }

\* line 218: b, pc, line = self.data, self.PC, self.line
ParseFrame(lt, target_pc, target_line) ==
    [b |-> lt.data, pc |-> lt.PC, line |-> lt.line, target_pc |-> target_pc,
     target_line |-> target_line, stream |-> lt.data, pc0 |-> lt.PC, line0 |-> lt.line]

InitParse ==
    /\ \E st \in ParseStreams, line0 \in {0, 5}, tg \in ParseTargets :
          /\ pcln = [new_line_table(st, 10) EXCEPT !.line = line0]
          /\ prs = ParseFrame(pcln, tg.pc, tg.line)
    /\ symtab = <<>> /\ pc = "parse" /\ outcome = "none" /\ Idle

\* lines 219-236: one turn of the loop
ParseStep ==
    /\ pc = "parse" /\ parse_continues(prs)
    /\ prs' = parse_step(prs)
    /\ UNCHANGED <<pc, outcome, symtab, pcln, gen, loc, t, heap, fault, raw>>

\* line 237
ParseReturn ==
    /\ pc = "parse" /\ ~parse_continues(prs)
    /\ pc' = "done" /\ outcome' = "returned"
    /\ UNCHANGED <<symtab, pcln, gen, loc, t, heap, fault, raw, prs>>

NextParse ==
    \/ ParseStep
    \/ ParseReturn

SpecParse == InitParse /\ [][NextParse]_vars

(***************************************************************************)
(* The claims, each stated over the reachable states of one of the         *)
(* specifications above.                                                   *)
(***************************************************************************)
ModernMode == pcln.go12 # None

\* the walk of the legacy stream ran to its end and the Objs were made
WalkCompleted == gen.state = "done" /\ (t.go12line => t.objs # <<>>)

\* the entry address stored in the i-th function-table entry of a modern
\* table, read in the byte order of its magic
StoredEntry(data, i) ==
    from_bytes(MagicOrder(data),
               Slice(data, 8 + data[8] + 2 * (i - 1) * data[8],
                     8 + data[8] + 2 * (i - 1) * data[8] + data[8]))

FuncEntries == [i \in 1..Len(t.funcs) |-> heap[t.funcs[i]].entry]

\* C1: with a valid modern header over a whole table and a legacy stream
\* without function-entry (and without path-component) records, new_table
\* returns a Table whose funcs are the nfunctab functions of the function
\* table, in table order, each with the stored entry address.
C1_ModernEnumeration ==
    (pc = "done" /\ ModernMode /\ t.go12line /\ WalkCompleted /\ fault = "none"
        /\ pcln.data \in WholeModernPclns
        /\ loc.nf = 0 /\ \A k \in 1..Len(t.syms) : t.syms[k].type \notin PathTypes)
    => /\ outcome = "Table"
       /\ Len(t.funcs) = pcln.go12.nfunctab
       /\ \A i \in 1..Len(t.funcs) : FuncEntries[i] = StoredEntry(pcln.data, i)

\* C1, the scenario: little-endian magic, quantum 1, pointer size 8 and one
\* function decode to quantum 1, pointer size 8 and one Func.
C1_LittleEndianScenario ==
    /\ pc = "done" /\ outcome = "Table" /\ symtab = <<>> /\ pcln.data = PclnModern
    /\ ModernMode /\ pcln.go12.quantum = 1 /\ pcln.go12.ptrsize = 8
    /\ pcln.go12.nfunctab = 1 /\ FuncEntries = <<4096>>

\* bytes 5..8 and the magic of a header that the check must turn down
Malformed(data) ==
    \/ Len(data) < 16
    \/ data[5] # 0 \/ data[6] # 0
    \/ data[7] \notin {1, 2, 4}
    \/ data[8] \notin {4, 8}
    \/ SubSeq(data, 1, 4) \notin {<<255, 255, 255, 251>>, <<251, 255, 255, 255>>}

\* C2: reading LineTable.go12 never raises; the result is None exactly for the
\* buffers that are too short or whose header fails a check, and a Go12State
\* for every other buffer, however far it is truncated after byte 16.
C2_HeaderNeverRaises ==
    pcln.checked_go12 =>
        /\ ~(pc = "done" /\ outcome # "returned")
        /\ Malformed(pcln.data) <=> pcln.go12 = None

\* C2's case: a header that passes the checks over a buffer cut right after
\* the function count
C2_TruncatedAccepted ==
    /\ pc = "checked" /\ pcln.checked_go12 /\ pcln.go12 # None
    /\ Len(pcln.data) = 16 /\ pcln.go12.ptrsize = 8
    /\ pcln.go12.nfunctab = 1 /\ pcln.go12.functab = <<>>

\* C2's other case: a header turned down for its quantum byte
C2_BadQuantumAbsent ==
    /\ pc = "checked" /\ Len(pcln.data) >= 16 /\ pcln.data[7] = 3 /\ pcln.go12 = None

C3_Buffer ==
    <<254, 255, 255, 255, 0, 0, 0, 16, 0, 0, 212,
      109, 97, 105, 110, 46, 109, 97, 105, 110, 0, 0, 0, 0, 0>>

\* C3: the old-format buffer with the one function record "main.main" at
\* 0x1000 and a line table that is not modern give a Table with exactly one
\* Func, named "main.main", with entry 0x1000.
C3_OneLegacyFunc ==
    (pc = "done" /\ symtab = C3_Buffer /\ ~ModernMode)
    => /\ outcome = "Table"
       /\ Len(t.funcs) = 1
       /\ heap[t.funcs[1]].sym.name = Str_main_main
       /\ heap[t.funcs[1]].entry = 4096

\* C3's run, as far as it gets: the record is decoded and the Func is made
C3_RecordDecoded ==
    /\ pc = "done" /\ symtab = C3_Buffer /\ ~ModernMode
    /\ Len(t.syms) = 1 /\ t.syms[1].name = Str_main_main /\ t.syms[1].value = 4096
    /\ Len(heap) = 1 /\ heap[1].entry = 4096

\* C4: when the decoding of the legacy buffer meets a read past the buffer
\* end or a pointer-size byte other than 4 and 8, new_table fails with a
\* DecodingError and returns no Table.
C4_FaultIsDecodingError ==
    (pc = "done" /\ fault # "none") => outcome = "DecodingError"

\* C4's case: a variable-width value whose continuation bytes reach the end
\* of the buffer, after a record has been decoded
C4_TableDespiteFault ==
    pc = "done" /\ fault = "eof" /\ outcome = "Table" /\ Len(t.syms) >= 1

\* the 2-byte big-endian indices of a path payload
PayloadIdx(payload) ==
    [j \in 1..(Len(payload) \div 2) |-> 256 * payload[2 * j - 1] + payload[2 * j]]

\* the filename-registration records before record k that register idx
RegAt(k, idx) == {j \in 1..(k - 1) : t.syms[j].type = 102 /\ t.syms[j].value = idx}

MaxOf(S) == CHOOSE x \in S : \A y \in S : y <= x

AllRegistered(k) ==
    \A j \in 1..Len(PayloadIdx(raw[k])) : RegAt(k, PayloadIdx(raw[k])[j]) # {}

\* the strings registered for the indices of record k, in payload order
PathStrings(k) ==
    [j \in 1..Len(PayloadIdx(raw[k])) |-> t.syms[MaxOf(RegAt(k, PayloadIdx(raw[k])[j]))].name]

\* the '/'-join of strs
RECURSIVE PlainJoin(_)
PlainJoin(strs) ==
    IF Len(strs) = 0 THEN <<>>
    ELSE IF Len(strs) = 1 THEN strs[1]
    ELSE strs[1] \o <<47>> \o PlainJoin(Tail(strs))

\* strs appended to acc one by one, with a '/' before a string only when acc
\* is not empty and does not end in '/'
RECURSIVE GuardedJoin(_, _)
GuardedJoin(strs, acc) ==
    IF Len(strs) = 0 THEN acc
    ELSE GuardedJoin(Tail(strs),
                     IF Len(acc) > 0 /\ acc[Len(acc)] # 47
                     THEN acc \o <<47>> \o strs[1] ELSE acc \o strs[1])

\* every path-component record so far has the joined name, or is the one
\* new_table failed on
PathNamesAre(guarded) ==
    \A k \in 1..Len(t.syms) :
        t.syms[k].type \in PathTypes =>
            IF AllRegistered(k)
            THEN t.syms[k].name = IF guarded THEN GuardedJoin(PathStrings(k), <<>>)
                                  ELSE PlainJoin(PathStrings(k))
            ELSE k = Len(t.syms) /\ pc = "done" /\ outcome = "DecodingError"

\* C5, amended: the name of the Sym of a path-component record is made of the
\* strings registered earlier for the indices of its payload, in payload
\* order, with a '/' put before a string only when the name so far is not
\* empty and does not already end in '/'; an index with no earlier
\* registration makes new_table raise a DecodingError.
C5_PathNamesGuardedJoin == PathNamesAre(TRUE)

\* C5 as stated: the name is the '/'-join of the registered strings.
C5_PathNamesPlainJoin == PathNamesAre(FALSE)

\* C5's case: the indices of "dir" and "file.go" resolved to "dir/file.go"
C5_DirFileResolved ==
    \E k \in 1..Len(t.syms) :
        /\ t.syms[k].type \in PathTypes /\ AllRegistered(k)
        /\ PathStrings(k) = <<Str_dir, Str_file_go>>
        /\ t.syms[k].name = Str_dir \o <<47>> \o Str_file_go

HasMagic(data, m) == Len(data) >= Len(m) /\ SubSeq(data, 1, Len(m)) = m

\* the value of the first record yielded, read at 0-based offset off
FirstValueAt(off, order) ==
    Len(t.syms) >= 1 => t.syms[1].value = from_bytes(order, SubSeq(symtab, off + 1, off + 4))

\* what walksymtab has selected once it has yielded a record, with
\* other_order the order of a buffer that starts with no magic
PrefixSelects(other_order) ==
    Len(t.syms) >= 1 =>
        IF HasMagic(symtab, <<254, 255, 255, 255, 0, 0>>)
        THEN /\ gen.order = "little" /\ ~gen.new_table_format /\ gen.ptrsz = 0
             /\ FirstValueAt(6, "little")
        ELSE IF HasMagic(symtab, <<255, 255, 255, 253, 0, 0, 0>>)
        THEN /\ gen.order = "big" /\ gen.new_table_format
             /\ Len(symtab) >= 8 => gen.ptrsz = symtab[8]
        ELSE IF HasMagic(symtab, <<253, 255, 255, 255, 0, 0, 0>>)
        THEN /\ gen.order = "little" /\ gen.new_table_format
             /\ Len(symtab) >= 8 => gen.ptrsz = symtab[8]
        ELSE /\ gen.order = other_order /\ ~gen.new_table_format /\ gen.ptrsz = 0
             /\ FirstValueAt(0, other_order)

\* C6, amended: FE FF FF FF 00 00 selects little-endian 4-byte values and no
\* pointer-size byte; FF FF FF FD 00 00 00 selects big-endian and
\* FD FF FF FF 00 00 00 little-endian, each with a pointer-size byte; every
\* other non-empty buffer is read from its first byte in the old record
\* layout, with no pointer-size byte, but in big-endian order.
C6_PrefixSelectsBigFallback == PrefixSelects("big")

\* C6 as stated: every other prefix is decoded as the old format is, that is
\* little-endian.
C6_PrefixSelectsOldFallback == PrefixSelects("little")

\* C6's case: a buffer with no magic yields its first record, value read
\* big-endian
C6_NoMagicYields ==
    /\ symtab # <<>> /\ symtab[1] = 0 /\ gen.order = "big" /\ ~gen.new_table_format
    /\ Len(t.syms) >= 1 /\ t.syms[1].value = 1 /\ t.syms[1].name = Str_dir

RECURSIVE SumSeq(_)
SumSeq(q) == IF q = <<>> THEN 0 ELSE Head(q) + SumSeq(Tail(q))

\* "add n to line" opcodes followed by one PC-advance opcode
AddsThenAdvance(st) ==
    /\ Len(st) >= 1 /\ st[Len(st)] \in 129..255
    /\ \A j \in 1..(Len(st) - 1) : st[j] \in 1..64

\* parse has returned from such a stream with neither target reached
ParsedToEnd ==
    /\ pc = "done" /\ AddsThenAdvance(prs.stream)
    /\ prs.target_pc = 1000 /\ prs.target_line = 0 - 1

\* C7, amended: parse run to the end of a stream of adds followed by one
\* PC-advance opcode c returns line = initial line + sum of the n_i and
\* pc = initial pc + quantum * (number of adds + (c - 128)), quantum = 1.
C7_ParseAddsThenAdvance ==
    ParsedToEnd =>
        /\ prs.b = <<>>
        /\ prs.line = prs.line0 + SumSeq(SubSeq(prs.stream, 1, Len(prs.stream) - 1))
        /\ prs.pc = prs.pc0 + OLD_QUANTUM * ((Len(prs.stream) - 1)
                                             + (prs.stream[Len(prs.stream)] - 128))

\* C7 as stated: pc = initial pc + quantum * (number of opcodes consumed).
C7_ParsePcCountsOpcodes ==
    ParsedToEnd =>
        /\ prs.line = prs.line0 + SumSeq(SubSeq(prs.stream, 1, Len(prs.stream) - 1))
        /\ prs.pc = prs.pc0 + OLD_QUANTUM * Len(prs.stream)

\* C7's case: two adds and an advance of two quanta, parsed to the end
C7_TwoAddsAdvanceTwo ==
    /\ ParsedToEnd /\ prs.stream = <<1, 2, 130>> /\ prs.line0 = 5
    /\ prs.line = 8 /\ prs.pc = prs.pc0 + 4

\* C8: the byte order in which the first 4 bytes are the magic is the order
\* of every later field: over a whole table the Go12State decodes in that
\* order, and the enumeration returns nfunctab functions whose entry
\* addresses are the stored ones read in it.
C8_MagicOrderUsed ==
    (pc = "funcs" /\ pcln.data \in HeaderTables) =>
        /\ pcln.go12.binary = MagicOrder(pcln.data)
        /\ outcome = "returned"
        /\ Len(heap) = pcln.go12.nfunctab
        /\ \A i \in 1..Len(heap) : heap[i].entry = StoredEntry(pcln.data, i)

\* the same for the tables with the little-endian magic alone
C8_LittleEndianOrderUsed ==
    MagicOrder(pcln.data) = "little" => C8_MagicOrderUsed

\* C8's case: a big-endian table whose header fields were read big-endian
C8_BigEndianHeaderRead ==
    /\ pc = "funcs" /\ MagicOrder(pcln.data) = "big" /\ pcln.data \in HeaderTables
    /\ pcln.go12.ptrsize = 4 /\ pcln.go12.nfunctab = 1 /\ pcln.go12.nfiletab = 2

\* C9: in modern mode the Table has exactly one Obj, which owns every Func,
\* whatever path-component records the legacy stream holds; in legacy mode
\* a stream with path-component records gives a Table with one Obj per
\* maximal run of them.
C9_ObjPartition ==
    (pc = "done" /\ WalkCompleted /\ fault = "none") =>
        IF t.go12line
        THEN outcome = "Table" => Len(t.objs) = 1 /\ t.objs[1].funcs = t.funcs
        ELSE t.objs # <<>> => outcome = "Table" /\ Len(t.objs) = loc.nz

\* C9's case: a modern Table built over a legacy stream with a path record
C9_ModernWithPathRecord ==
    /\ pc = "done" /\ outcome = "Table" /\ t.go12line
    /\ \E k \in 1..Len(t.syms) : t.syms[k].type \in PathTypes

\* the i-th filename of the modern file table, read in the order of the magic
FileName(lt, i) ==
    string(lt.data, from_bytes(MagicOrder(lt.data), Slice(lt.go12.filetab, 4 * i, 4 * i + 4)))

\* C10: in modern mode the Table's files has a key for every filename of the
\* file table (ordinals 1..nfiletab-1), each mapped to the one shared Obj,
\* and a second request for the filename map leaves it unchanged.
C10_FilesCoverFileTable ==
    (pc = "done" /\ outcome = "Table" /\ t.go12line
        /\ pcln.go12.nfiletab \in 2..(Len(ModernFiles) + 1))
    => /\ \A i \in 1..(pcln.go12.nfiletab - 1) :
             /\ FileName(pcln, i) \in DOMAIN t.files
             /\ t.files[FileName(pcln, i)] = 1
       /\ init_file_map(init_file_map(pcln.go12).go12) = init_file_map(pcln.go12)

\* C10's case: a modern Table over a file table with one filename
C10_ModernWithOneFile ==
    /\ pc = "done" /\ outcome = "Table" /\ pcln.data = PclnModern
    /\ pcln.go12.nfiletab = 2 /\ FileName(pcln, 1) = Str_a_go

=============================================================================
